---- MODULE Spec2Model ----
(***************************************************************************)
(* Browser-side scripts of the meeting application:                        *)
(*   static/app.js      the page chrome (meeting-id mask, submit buttons)  *)
(*   static/meeting.js  the MeetingRoom controller                         *)
(* Text is a sequence of one-character strings.  A handler runs to         *)
(* completion (one action); an async function is one action per segment    *)
(* between awaits.                                                         *)
(***************************************************************************)
EXTENDS Integers, Sequences, FiniteSets, TLC

\* ------------------------------------------------------------------ bounds
MaxPieces == 2      \* pieces a formatted message text is built from
MaxMsgLen == 3      \* characters typed into the message box
MaxOutbox == 3      \* outbound events of user actions that are recorded
MaxPushes == 2      \* roster pushes / chat entries received
MaxDisplayStreams == 2 \* display-capture streams requested in one session
MaxTicks == 2       \* timer ticks rendered
MaxClicks == 2      \* clicks on one submit button
MaxReceived == 3    \* inbound chat events (new_message, chat_history, roster pushes)

\* --------------------------------------------------------- program constants
MaskMaxDigits == 10

VARIABLES
    \* app.js
    meetingIdValue,     \* value of the #meeting_id field
    buttons,            \* submit button -> [innerHTML, disabled, timers]
    submitClicks,       \* submit button -> click events handled so far
    \* formatMessageContent
    content,            \* text handed to formatMessageContent
    rendered,           \* what it returned
    \* MeetingRoom: chat
    messageInput,       \* value of #messageInput
    chatMessages,       \* children of #chatMessages
    unacked,            \* send_message events the server has not acknowledged
    received,           \* new_message, chat_history, user_joined and user_left events, as they arrived
    \* MeetingRoom: roster
    participantsList,   \* children of #participantsList
    participantVideos,  \* children of #participantVideos
    participantCount,   \* text of #participantCount
    \* MeetingRoom: media
    phase,              \* "active" | "navigating" | "unloaded"
    cameraReq,          \* getUserMedia promise: "pending" | "granted" | "denied"
    streams,            \* every capture stream the browser handed out
    localStream,        \* index into streams, 0 = null
    screenStream,       \* index into streams, 0 = null
    isCameraOn,
    isMicrophoneOn,
    isScreenSharing,
    mainVideo,          \* srcObject of the .main-video video, 0 = no video element
    displayReqs,        \* shareScreen calls suspended at getDisplayMedia
    intervalActive,     \* the interval of timerInterval is still scheduled
    timerTicks,         \* ticks rendered into #timer
    cameraBtn,
    micBtn,
    \* shared
    outbox,             \* events emitted on the socket, in order
    notification        \* the last toast shown by showNotification, as a tuple of its parts

appVars == <<meetingIdValue, buttons, submitClicks>>
formatVars == <<content, rendered>>
chatVars == <<messageInput, chatMessages, unacked, received>>
rosterVars == <<participantsList, participantVideos, participantCount>>
mediaVars == <<phase, cameraReq, streams, localStream, screenStream, isCameraOn,
               isMicrophoneOn, isScreenSharing, mainVideo, displayReqs,
               intervalActive, timerTicks, cameraBtn, micBtn>>
sharedVars == <<outbox, notification>>
nonAppVars == <<formatVars, chatVars, rosterVars, mediaVars, sharedVars>>
nonFormatVars == <<appVars, chatVars, rosterVars, mediaVars, sharedVars>>
nonMeetingVars == <<appVars, formatVars>>
vars == <<appVars, formatVars, chatVars, rosterVars, mediaVars, sharedVars>>

\* ------------------------------------------------------------- text helpers
RECURSIVE Concat(_)
Concat(ss) == IF ss = <<>> THEN <<>> ELSE Head(ss) \o Concat(Tail(ss))

StartsWith(s, p) == Len(s) >= Len(p) /\ SubSeq(s, 1, Len(p)) = p

Drop(s, n) == SubSeq(s, n + 1, Len(s))

\* s.includes(p)
Contains(s, p) == \E i \in 1..(Len(s) - Len(p) + 1) : SubSeq(s, i, i + Len(p) - 1) = p

\* String.prototype.replace(/pat/, rep): the first occurrence only
RECURSIVE ReplaceFirst(_, _, _)
ReplaceFirst(s, pat, rep) ==
    IF Len(s) < Len(pat) THEN s
    ELSE IF StartsWith(s, pat) THEN rep \o Drop(s, Len(pat))
    ELSE <<Head(s)>> \o ReplaceFirst(Tail(s), pat, rep)

\* String.prototype.replace(/pat/g, rep) for a literal pattern
RECURSIVE ReplaceAll(_, _, _)
ReplaceAll(s, pat, rep) ==
    IF Len(s) < Len(pat) THEN s
    ELSE IF StartsWith(s, pat) THEN rep \o ReplaceAll(Drop(s, Len(pat)), pat, rep)
    ELSE <<Head(s)>> \o ReplaceAll(Tail(s), pat, rep)

\* ---------------------------------------------------------------- app.js
DigitChars == {"0", "1", "2", "3", "4", "5", "6", "7", "8", "9"}

\* value.replace(/\D/g, '')
StripNonDigits(s) == SelectSeq(s, LAMBDA c : c \in DigitChars)

\* value.slice(a, b) on 0-based offsets
Slice(s, a, b) == SubSeq(s, a + 1, IF b > Len(s) THEN Len(s) ELSE b)

\* the XXX-XXX-XXXX step of the listener
FormatGroups(value) ==
    IF Len(value) >= 6
    THEN Slice(value, 0, 3) \o <<"-">> \o Slice(value, 3, 6) \o <<"-">> \o Drop(value, 6)
    ELSE IF Len(value) >= 3
    THEN Slice(value, 0, 3) \o <<"-">> \o Drop(value, 3)
    ELSE value

\* the input listener of #meeting_id, as a function of e.target.value
MaskMeetingId(raw) ==
    LET digits == StripNonDigits(raw)
        value == IF Len(digits) > MaskMaxDigits THEN Slice(digits, 0, MaskMaxDigits)
                 ELSE digits
    IN  FormatGroups(value)

\* what the user can key into the field
TypedChars == {"1", "2", "-", "a"}

\* the user appends a character; the input listener rewrites the field
TypeMeetingId(c) ==
    /\ meetingIdValue' = MaskMeetingId(Append(meetingIdValue, c))
    /\ UNCHANGED <<buttons, submitClicks, nonAppVars>>

\* the user deletes the last character; the input listener rewrites the field
BackspaceMeetingId ==
    /\ meetingIdValue # <<>>
    /\ meetingIdValue' = MaskMeetingId(SubSeq(meetingIdValue, 1, Len(meetingIdValue) - 1))
    /\ UNCHANGED <<buttons, submitClicks, nonAppVars>>

\* document.querySelectorAll('button[type="submit"]')
SubmitButtons == {"signin", "join"}

\* the label each button is rendered with
OriginalLabel(b) == IF b = "signin" THEN "Sign In" ELSE "Join Meeting"

LoadingMarkup == "<i class=\"fas fa-spinner fa-spin me-2\"></i>Loading..."

\* a click listener that reads the label after overwriting it
ClickSubmitCapturesLate(b) ==
    /\ ~buttons[b].disabled
    /\ submitClicks[b] < MaxClicks
    /\ buttons' = [buttons EXCEPT ![b] =
            [innerHTML |-> LoadingMarkup, disabled |-> TRUE,
             timers |-> Append(@.timers, LoadingMarkup)]]
    /\ submitClicks' = [submitClicks EXCEPT ![b] = @ + 1]
    /\ UNCHANGED <<meetingIdValue, nonAppVars>>

\* the click listener of a submit button.  The listener sets disabled, and a
\* disabled button dispatches no click to its listeners, so a click is handled
\* only while the button is enabled.
ClickSubmit(b) ==
    /\ ~buttons[b].disabled
    /\ submitClicks[b] < MaxClicks
    /\ buttons' = [buttons EXCEPT ![b] =
            [innerHTML |-> LoadingMarkup, disabled |-> TRUE,
             timers |-> Append(@.timers, @.innerHTML)]]
    /\ submitClicks' = [submitClicks EXCEPT ![b] = @ + 1]
    /\ UNCHANGED <<meetingIdValue, nonAppVars>>

\* the setTimeout callback of the oldest pending click fires
SubmitTimeout(b) ==
    /\ buttons[b].timers # <<>>
    /\ buttons' = [buttons EXCEPT ![b] =
            [innerHTML |-> Head(@.timers), disabled |-> FALSE,
             timers |-> Tail(@.timers)]]
    /\ UNCHANGED <<meetingIdValue, submitClicks, nonAppVars>>

AppNext ==
    \/ \E c \in TypedChars : TypeMeetingId(c)
    \/ BackspaceMeetingId
    \/ \E b \in SubmitButtons : ClickSubmit(b)
    \/ \E b \in SubmitButtons : SubmitTimeout(b)

\* ------------------------------------------------- meeting.js: message text
Whitespace == {" "}

\* the replacement strings of formatMessageContent, code point by code point,
\* as the source file spells them
GlyphSmile == <<"U+F8FF", "U+00FC", "U+00F2", "U+00E4">>
GlyphSad == <<"U+F8FF", "U+00FC", "U+00F2", "U+00FB">>
GlyphGrin == <<"U+F8FF", "U+00FC", "U+00F2", "U+00C9">>
GlyphNeutral == <<"U+F8FF", "U+00FC", "U+00F2", "U+00EA">>
GlyphHeart == <<"U+201A", "U+00F9", "U+00A7", "U+00D4", "U+220F", "U+00E8">>

\* the five literal substitutions, in the order the code chains them
Substitutions ==
    << [pat |-> <<":", ")">>, rep |-> GlyphSmile],
       [pat |-> <<":", "(">>, rep |-> GlyphSad],
       [pat |-> <<":", "D">>, rep |-> GlyphGrin],
       [pat |-> <<":", "|">>, rep |-> GlyphNeutral],
       [pat |-> <<"<", "3">>, rep |-> GlyphHeart] >>

HttpPrefix == <<"h", "t", "t", "p", ":", "/", "/">>
HttpsPrefix == <<"h", "t", "t", "p", "s", ":", "/", "/">>
AnchorOpen == <<"<", "a", " ", "h", "r", "e", "f", "=", "\"">>
AnchorMid == <<"\"", " ", "t", "a", "r", "g", "e", "t", "=", "\"", "_", "b", "l", "a",
               "n", "k", "\"", " ", "c", "l", "a", "s", "s", "=", "\"", "t", "e", "x",
               "t", "-", "p", "r", "i", "m", "a", "r", "y", "\"", ">">>
AnchorClose == <<"<", "/", "a", ">">>

\* length of the longest prefix of s without whitespace: [^\s]*
RECURSIVE NonSpaceRun(_)
NonSpaceRun(s) ==
    IF s = <<>> \/ Head(s) \in Whitespace THEN 0 ELSE 1 + NonSpaceRun(Tail(s))

\* length of the match of /https?:\/\/[^\s]+/ at the start of s, 0 when none
UrlMatchLen(s) ==
    IF StartsWith(s, HttpsPrefix) /\ NonSpaceRun(Drop(s, 8)) > 0
    THEN 8 + NonSpaceRun(Drop(s, 8))
    ELSE IF StartsWith(s, HttpPrefix) /\ NonSpaceRun(Drop(s, 7)) > 0
    THEN 7 + NonSpaceRun(Drop(s, 7))
    ELSE 0

\* .replace(/(https?:\/\/[^\s]+)/g, '<a href="$1" target="_blank" class="text-primary">$1</a>')
RECURSIVE Linkify(_)
Linkify(s) ==
    IF s = <<>> THEN <<>>
    ELSE LET n == UrlMatchLen(s)
         IN  IF n > 0
             THEN AnchorOpen \o SubSeq(s, 1, n) \o AnchorMid \o SubSeq(s, 1, n)
                      \o AnchorClose \o Linkify(Drop(s, n))
             ELSE <<Head(s)>> \o Linkify(Tail(s))

\* one substitution of the chain: .replace(/pat/g, glyph)
Substitute(s, i) == ReplaceAll(s, Substitutions[i].pat, Substitutions[i].rep)

\* the chain with a substitution that lost its g flag
formatMessageContentFirstOnly(text) ==
    Linkify(Substitute(Substitute(Substitute(Substitute(
        ReplaceFirst(text, Substitutions[1].pat, Substitutions[1].rep), 2), 3), 4), 5))

formatMessageContent(text) ==
    Linkify(Substitute(Substitute(Substitute(Substitute(Substitute(text, 1), 2), 3), 4), 5))

\* the pieces message texts are built from
Pieces ==
    { <<":", ")">>, <<":", "(">>, <<":", "D">>, <<":", "|">>, <<"<", "3">>,
      <<":">>, <<"<">>, <<"3">>, <<")">>, <<" ">>, <<"x">>, HttpPrefix }

Texts == { Concat(ps) : ps \in UNION { [1..n -> Pieces] : n \in 0..MaxPieces } }

NotRendered == <<"(not rendered)">>

\* displayMessage hands data.message to formatMessageContent
FormatMessage ==
    /\ rendered = NotRendered
    /\ rendered' = formatMessageContent(content)
    /\ UNCHANGED <<content, nonFormatVars>>

FormatNext == FormatMessage

\* -------------------------------------------------- meeting.js: MeetingRoom
\* MEETING_CONFIG, handed to the constructor
MeetingId == "m1"
UserId == "u0"
UserName == "me"

\* nothing of the page runs once it is unloaded
Alive == phase # "unloaded"

\* socket.emit(event, payload)
Emitted(e) == Append(outbox, e)

\* how many events of this name were emitted
EmitCount(name) == Cardinality({i \in 1..Len(outbox) : outbox[i].event = name})

\* ------------------------------------------------------------------- chat
MessageChars == {" ", "a"}

\* String.prototype.trim
RECURSIVE TrimLeft(_)
TrimLeft(s) == IF s # <<>> /\ Head(s) \in Whitespace THEN TrimLeft(Tail(s)) ELSE s

RECURSIVE TrimRight(_)
TrimRight(s) ==
    IF s # <<>> /\ s[Len(s)] \in Whitespace THEN TrimRight(SubSeq(s, 1, Len(s) - 1)) ELSE s

Trim(s) == TrimRight(TrimLeft(s))

\* the user keys a character into the message box (insertEmoji appends likewise)
TypeMessage(c) ==
    /\ Alive
    /\ Len(messageInput) < MaxMsgLen
    /\ messageInput' = Append(messageInput, c)
    /\ UNCHANGED <<chatMessages, unacked, received, rosterVars, mediaVars, sharedVars,
                   nonMeetingVars>>

\* sendMessage that emits the box as typed
sendMessageUntrimmed ==
    /\ Alive
    /\ LET message == messageInput
       IN  IF message = <<>>
           THEN UNCHANGED <<messageInput, outbox, unacked>>
           ELSE /\ Len(outbox) < MaxOutbox
                /\ outbox' = Emitted([event |-> "send_message", meeting_id |-> MeetingId,
                                      message |-> message])
                /\ messageInput' = <<>>
                /\ unacked' = unacked + 1
    /\ UNCHANGED <<chatMessages, received, rosterVars, mediaVars, notification, nonMeetingVars>>

\* MeetingRoom.sendMessage (the send control and Enter in the message box)
sendMessage ==
    /\ Alive
    /\ LET message == Trim(messageInput)
       IN  IF message = <<>>
           THEN UNCHANGED <<messageInput, outbox, unacked>>
           ELSE /\ Len(outbox) < MaxOutbox
                /\ outbox' = Emitted([event |-> "send_message", meeting_id |-> MeetingId,
                                      message |-> message])
                /\ messageInput' = <<>>
                /\ unacked' = unacked + 1
    /\ UNCHANGED <<chatMessages, received, rosterVars, mediaVars, notification, nonMeetingVars>>

\* socket.on('message_sent'): the server acknowledges a send_message
MessageSent(status) ==
    /\ Alive
    /\ unacked > 0
    /\ unacked' = unacked - 1
    /\ notification' = IF status = "success" THEN <<"Message sent">> ELSE notification
    /\ UNCHANGED <<messageInput, chatMessages, received, rosterVars, mediaVars, outbox,
                   nonMeetingVars>>

\* ------------------------------------------------------------- chat pane
\* senders and texts of the chat messages the server relays
ChatSenders == {UserName, "bob"}
ChatTexts == {<<":", ")">>}

\* timestamp of a new_message event, and of a stored message of chat_history
ClockTimes == {"10:00"}
IsoTimes == {"2024-01-01T10:00:00"}

NewMessages ==
    [user_name : ChatSenders, message : ChatTexts, timestamp : ClockTimes]

StoredMessages ==
    [user_name : ChatSenders, message : ChatTexts, timestamp : IsoTimes]

\* the message lists a chat_history event can carry
HistoryPayloads == UNION { [1..n -> StoredMessages] : n \in 0..MaxPushes }

\* new Date(timestamp).toLocaleTimeString()
toLocaleTimeString(timestamp) ==
    CASE timestamp = "2024-01-01T10:00:00" -> "10:00:00 AM"
      [] OTHER -> "Invalid Date"

\* displayMessage: the pane with the div of one message appended
displayMessage(pane, data) ==
    LET isOwnMessage == data.user_name = UserName
    IN  Append(pane, [type |-> "message",
                      sender |-> <<data.user_name>> \o
                                     (IF isOwnMessage THEN <<" (You)">> ELSE <<>>),
                      own |-> isOwnMessage,
                      time |-> data.timestamp,
                      content |-> formatMessageContent(data.message)])

\* showSystemNotification: the pane with one notice appended
showSystemNotification(pane, message) ==
    Append(pane, [type |-> "system", text |-> message])

\* the forEach of loadChatHistory
RECURSIVE DisplayEach(_, _)
DisplayEach(pane, messages) ==
    IF messages = <<>> THEN pane
    ELSE DisplayEach(displayMessage(pane,
                        [user_name |-> Head(messages).user_name,
                         message |-> Head(messages).message,
                         timestamp |-> toLocaleTimeString(Head(messages).timestamp)]),
                     Tail(messages))

\* loadChatHistory that does not empty the pane first
loadChatHistoryKeepsPane(messages) == DisplayEach(chatMessages, messages)

\* loadChatHistory: the pane after the call
loadChatHistory(messages) == DisplayEach(<<>>, messages)

\* socket.on('new_message')
NewMessage(data) ==
    /\ Alive
    /\ Len(received) < MaxReceived
    /\ received' = Append(received, [event |-> "new_message", data |-> data])
    /\ chatMessages' = displayMessage(chatMessages, data)
    /\ UNCHANGED <<messageInput, unacked, rosterVars, mediaVars, sharedVars, nonMeetingVars>>

\* socket.on('chat_history')
ChatHistory(messages) ==
    /\ Alive
    /\ Len(received) < MaxReceived
    /\ received' = Append(received, [event |-> "chat_history", messages |-> messages])
    /\ chatMessages' = loadChatHistory(messages)
    /\ UNCHANGED <<messageInput, unacked, rosterVars, mediaVars, sharedVars, nonMeetingVars>>

\* ----------------------------------------------------------------- roster
RemoteUsers == {"u1", "u2"}
Users == {UserId} \cup RemoteUsers

\* the list entry the page template renders for the local participant
SelfEntry == "self"

\* participant lists a roster push can carry: no participant twice
RosterPayloads ==
    { ps \in UNION { [1..n -> Users] : n \in 0..Cardinality(Users) } :
        \A i, j \in 1..Len(ps) : i # j => ps[i] # ps[j] }

\* the participants the forEach of updateParticipantsList renders
Others(participants) == SelectSeq(participants, LAMBDA id : id # UserId)

\* updateParticipantsList: [list, videos, count] after the call
updateParticipantsList(participants) ==
    LET selfParticipant == IF participantsList = <<>> THEN <<>>
                           ELSE <<Head(participantsList)>>
    IN  [ list |-> selfParticipant \o Others(participants),
          videos |-> participantVideos \o Others(participants),
          count |-> Len(participants) ]

\* socket.on('user_joined') / socket.on('user_left')
HandleRosterPush(kind, user, participants) ==
    /\ Alive
    /\ Len(chatMessages) < MaxPushes
    /\ Len(received) < MaxReceived
    /\ received' = Append(received, [event |-> "user_" \o kind, user |-> user])
    /\ chatMessages' = showSystemNotification(chatMessages, <<user, kind>>)
    /\ LET r == updateParticipantsList(participants)
       IN  /\ participantsList' = r.list
           /\ participantVideos' = r.videos
           /\ participantCount' = r.count
    /\ notification' = <<user, kind, "the meeting">>
    /\ UNCHANGED <<messageInput, unacked, mediaVars, outbox, nonMeetingVars>>

handleUserJoined(user, participants) == HandleRosterPush("joined", user, participants)

handleUserLeft(user, participants) == HandleRosterPush("left", user, participants)

\* ------------------------------------------------------------------ media
Track(kind) == [kind |-> kind, enabled |-> TRUE, stops |-> 0, readyState |-> "live"]

\* what getUserMedia({video: true, audio: true}) resolves with
CameraStream == [source |-> "camera", tracks |-> <<Track("audio"), Track("video")>>]

\* what getDisplayMedia({video: true, audio: true}) resolves with: audio is optional
DisplayStream(withAudio) ==
    [source |-> "display",
     tracks |-> IF withAudio THEN <<Track("video"), Track("audio")>> ELSE <<Track("video")>>]

\* stream.getVideoTracks() / getAudioTracks(), as positions in getTracks()
TracksOfKind(stream, kind) ==
    SelectSeq([i \in 1..Len(stream.tracks) |-> i], LAMBDA i : stream.tracks[i].kind = kind)

\* track.stop() on one track
Stopped(track) == [track EXCEPT !.stops = @ + 1, !.readyState = "ended"]

\* stream.getTracks().forEach(track => track.stop()) on stream ref; ref 0 is null
StopAll(strs, ref) ==
    IF ref = 0 THEN strs
    ELSE [strs EXCEPT ![ref].tracks = [i \in 1..Len(@) |-> Stopped(@[i])]]

\* getXTracks()[0].enabled = flag, when there is such a track
SetFirstEnabled(strs, ref, kind, flag) ==
    LET ofKind == TracksOfKind(strs[ref], kind)
    IN  IF ofKind = <<>> THEN strs
        ELSE [strs EXCEPT ![ref].tracks[ofKind[1]].enabled = flag]

\* a toggle that writes the flag to every track of the stream
SetAllEnabled(strs, ref, kind, flag) ==
    [strs EXCEPT ![ref].tracks = [i \in 1..Len(@) |-> [@[i] EXCEPT !.enabled = flag]]]

ButtonClass(on) == IF on THEN "active" ELSE "muted"

DisplayCount(strs) == Cardinality({i \in 1..Len(strs) : strs[i].source = "display"})

\* initCamera after the await: getUserMedia resolved
CameraGranted ==
    /\ Alive
    /\ cameraReq = "pending"
    /\ cameraReq' = "granted"
    /\ streams' = Append(streams, CameraStream)
    /\ localStream' = Len(streams) + 1
    /\ mainVideo' = Len(streams) + 1
    /\ notification' = <<"Camera and microphone access granted">>
    /\ UNCHANGED <<phase, screenStream, isCameraOn, isMicrophoneOn, isScreenSharing,
                   displayReqs, intervalActive, timerTicks, cameraBtn, micBtn,
                   outbox, chatVars, rosterVars, nonMeetingVars>>

\* initCamera after the await: getUserMedia rejected
CameraDenied ==
    /\ Alive
    /\ cameraReq = "pending"
    /\ cameraReq' = "denied"
    /\ isCameraOn' = FALSE
    /\ isMicrophoneOn' = FALSE
    /\ cameraBtn' = ButtonClass(FALSE)
    /\ micBtn' = ButtonClass(FALSE)
    /\ notification' = <<"Camera/microphone access denied. Please allow access and refresh.">>
    /\ UNCHANGED <<phase, streams, localStream, screenStream, isScreenSharing, mainVideo,
                   displayReqs, intervalActive, timerTicks, outbox, chatVars, rosterVars, nonMeetingVars>>

\* toggleCamera that writes the flag to every track of the local stream
toggleCameraAllTracks ==
    /\ Alive
    /\ IF localStream = 0
       THEN /\ notification' = <<"Camera not available">>
            /\ UNCHANGED <<isCameraOn, streams, cameraBtn, micBtn, outbox>>
       ELSE /\ Len(outbox) < MaxOutbox
            /\ isCameraOn' = ~isCameraOn
            /\ streams' = SetAllEnabled(streams, localStream, "video", ~isCameraOn)
            /\ cameraBtn' = ButtonClass(~isCameraOn)
            /\ micBtn' = ButtonClass(isMicrophoneOn)
            /\ outbox' = Emitted([event |-> "toggle_camera", meeting_id |-> MeetingId,
                                  camera_on |-> ~isCameraOn])
            /\ notification' = <<"Camera", IF ~isCameraOn THEN "enabled" ELSE "disabled">>
    /\ UNCHANGED <<phase, cameraReq, localStream, screenStream, isMicrophoneOn,
                   isScreenSharing, mainVideo, displayReqs, intervalActive, timerTicks,
                   chatVars, rosterVars, nonMeetingVars>>

\* MeetingRoom.toggleCamera
toggleCamera ==
    /\ Alive
    /\ IF localStream = 0
       THEN /\ notification' = <<"Camera not available">>
            /\ UNCHANGED <<isCameraOn, streams, cameraBtn, micBtn, outbox>>
       ELSE /\ Len(outbox) < MaxOutbox
            /\ isCameraOn' = ~isCameraOn
            /\ streams' = SetFirstEnabled(streams, localStream, "video", ~isCameraOn)
            /\ cameraBtn' = ButtonClass(~isCameraOn)
            /\ micBtn' = ButtonClass(isMicrophoneOn)
            /\ outbox' = Emitted([event |-> "toggle_camera", meeting_id |-> MeetingId,
                                  camera_on |-> ~isCameraOn])
            /\ notification' = <<"Camera", IF ~isCameraOn THEN "enabled" ELSE "disabled">>
    /\ UNCHANGED <<phase, cameraReq, localStream, screenStream, isMicrophoneOn,
                   isScreenSharing, mainVideo, displayReqs, intervalActive, timerTicks,
                   chatVars, rosterVars, nonMeetingVars>>

\* toggleMicrophone without the early return of the localStream check
toggleMicrophoneUnguarded ==
    /\ Alive
    /\ Len(outbox) < MaxOutbox
    /\ isMicrophoneOn' = ~isMicrophoneOn
    /\ streams' = IF localStream = 0 THEN streams
                  ELSE SetFirstEnabled(streams, localStream, "audio", ~isMicrophoneOn)
    /\ cameraBtn' = ButtonClass(isCameraOn)
    /\ micBtn' = ButtonClass(~isMicrophoneOn)
    /\ outbox' = Emitted([event |-> "toggle_microphone", meeting_id |-> MeetingId,
                          mic_on |-> ~isMicrophoneOn])
    /\ notification' = <<"Microphone", IF ~isMicrophoneOn THEN "enabled" ELSE "disabled">>
    /\ UNCHANGED <<phase, cameraReq, localStream, screenStream, isCameraOn,
                   isScreenSharing, mainVideo, displayReqs, intervalActive, timerTicks,
                   chatVars, rosterVars, nonMeetingVars>>

\* toggleMicrophone that reports the flag as it was before the call
toggleMicrophoneReportsOld ==
    /\ Alive
    /\ IF localStream = 0
       THEN /\ notification' = <<"Microphone not available">>
            /\ UNCHANGED <<isMicrophoneOn, streams, cameraBtn, micBtn, outbox>>
       ELSE /\ Len(outbox) < MaxOutbox
            /\ isMicrophoneOn' = ~isMicrophoneOn
            /\ streams' = SetFirstEnabled(streams, localStream, "audio", ~isMicrophoneOn)
            /\ cameraBtn' = ButtonClass(isCameraOn)
            /\ micBtn' = ButtonClass(~isMicrophoneOn)
            /\ outbox' = Emitted([event |-> "toggle_microphone", meeting_id |-> MeetingId,
                                  mic_on |-> isMicrophoneOn])
            /\ notification' = <<"Microphone",
                                 IF ~isMicrophoneOn THEN "enabled" ELSE "disabled">>
    /\ UNCHANGED <<phase, cameraReq, localStream, screenStream, isCameraOn,
                   isScreenSharing, mainVideo, displayReqs, intervalActive, timerTicks,
                   chatVars, rosterVars, nonMeetingVars>>

\* MeetingRoom.toggleMicrophone
toggleMicrophone ==
    /\ Alive
    /\ IF localStream = 0
       THEN /\ notification' = <<"Microphone not available">>
            /\ UNCHANGED <<isMicrophoneOn, streams, cameraBtn, micBtn, outbox>>
       ELSE /\ Len(outbox) < MaxOutbox
            /\ isMicrophoneOn' = ~isMicrophoneOn
            /\ streams' = SetFirstEnabled(streams, localStream, "audio", ~isMicrophoneOn)
            /\ cameraBtn' = ButtonClass(isCameraOn)
            /\ micBtn' = ButtonClass(~isMicrophoneOn)
            /\ outbox' = Emitted([event |-> "toggle_microphone", meeting_id |-> MeetingId,
                                  mic_on |-> ~isMicrophoneOn])
            /\ notification' = <<"Microphone",
                                 IF ~isMicrophoneOn THEN "enabled" ELSE "disabled">>
    /\ UNCHANGED <<phase, cameraReq, localStream, screenStream, isCameraOn,
                   isScreenSharing, mainVideo, displayReqs, intervalActive, timerTicks,
                   chatVars, rosterVars, nonMeetingVars>>

\* shareScreen up to its first await, or to its end, on the streams as they are
\* when it is called
shareScreen(strs) ==
    IF isScreenSharing
    THEN /\ streams' = StopAll(strs, screenStream)
         /\ screenStream' = 0
         /\ mainVideo' = IF localStream # 0 /\ mainVideo # 0 THEN localStream ELSE mainVideo
         /\ isScreenSharing' = FALSE
         /\ notification' = <<"Screen sharing stopped">>
         /\ UNCHANGED displayReqs
    ELSE /\ DisplayCount(strs) + displayReqs < MaxDisplayStreams
         /\ displayReqs' = displayReqs + 1
         /\ streams' = strs
         /\ UNCHANGED <<screenStream, mainVideo, isScreenSharing, notification>>

\* the share control calls shareScreen
ShareScreenControl ==
    /\ Alive
    /\ shareScreen(streams)
    /\ UNCHANGED <<phase, cameraReq, localStream, isCameraOn, isMicrophoneOn,
                   intervalActive, timerTicks, cameraBtn, micBtn, outbox,
                   chatVars, rosterVars, nonMeetingVars>>

\* shareScreen after the await: getDisplayMedia resolved
DisplayGranted(withAudio) ==
    /\ Alive
    /\ displayReqs > 0
    /\ displayReqs' = displayReqs - 1
    /\ streams' = Append(streams, DisplayStream(withAudio))
    /\ screenStream' = Len(streams) + 1
    /\ mainVideo' = IF mainVideo # 0 THEN Len(streams) + 1 ELSE mainVideo
    /\ isScreenSharing' = TRUE
    /\ notification' = <<"Screen sharing started">>
    /\ UNCHANGED <<phase, cameraReq, localStream, isCameraOn, isMicrophoneOn,
                   intervalActive, timerTicks, cameraBtn, micBtn, outbox,
                   chatVars, rosterVars, nonMeetingVars>>

\* shareScreen after the await: getDisplayMedia rejected
DisplayDenied ==
    /\ Alive
    /\ displayReqs > 0
    /\ displayReqs' = displayReqs - 1
    /\ notification' = <<"Screen sharing not supported or permission denied">>
    /\ UNCHANGED <<phase, cameraReq, streams, localStream, screenStream, isCameraOn,
                   isMicrophoneOn, isScreenSharing, mainVideo, intervalActive, timerTicks,
                   cameraBtn, micBtn, outbox, chatVars, rosterVars, nonMeetingVars>>

\* the browser ends a display capture (its own stop control): the tracks of the
\* stream end and the 'ended' listener of its video track calls shareScreen
TrackEnded(ref) ==
    /\ Alive
    /\ ref \in 1..Len(streams)
    /\ streams[ref].source = "display"
    /\ streams[ref].tracks[1].readyState = "live"
    /\ shareScreen([streams EXCEPT ![ref].tracks =
                        [i \in 1..Len(@) |-> [@[i] EXCEPT !.readyState = "ended"]]])
    /\ UNCHANGED <<phase, cameraReq, localStream, isCameraOn, isMicrophoneOn,
                   intervalActive, timerTicks, cameraBtn, micBtn, outbox,
                   chatVars, rosterVars, nonMeetingVars>>

\* the setInterval callback of startTimer renders the elapsed time
TimerTick ==
    /\ Alive
    /\ intervalActive
    /\ timerTicks < MaxTicks
    /\ timerTicks' = timerTicks + 1
    /\ UNCHANGED <<phase, cameraReq, streams, localStream, screenStream, isCameraOn,
                   isMicrophoneOn, isScreenSharing, mainVideo, displayReqs, intervalActive,
                   cameraBtn, micBtn, sharedVars, chatVars, rosterVars, nonMeetingVars>>

\* MeetingRoom.leaveMeeting
leaveMeeting ==
    /\ outbox' = Emitted([event |-> "leave_meeting", meeting_id |-> MeetingId])
    /\ intervalActive' = FALSE
    /\ streams' = StopAll(StopAll(streams, localStream), screenStream)
    /\ UNCHANGED <<cameraReq, localStream, screenStream, isCameraOn, isMicrophoneOn,
                   isScreenSharing, mainVideo, displayReqs, timerTicks, cameraBtn, micBtn,
                   notification, chatVars, rosterVars, nonMeetingVars>>

\* confirmLeaveMeeting: leaves, then starts the navigation to the dashboard
confirmLeaveMeeting ==
    /\ phase = "active"
    /\ leaveMeeting
    /\ phase' = "navigating"

\* the beforeunload listener of bindEvents: the page is closed or navigates away
BeforeUnload ==
    /\ Alive
    /\ leaveMeeting
    /\ phase' = "unloaded"

SendNext ==
    \/ \E c \in MessageChars : TypeMessage(c)
    \/ sendMessage
    \/ \E status \in {"success", "error"} : MessageSent(status)

RosterNext ==
    \/ \E user \in RemoteUsers, participants \in RosterPayloads :
            handleUserJoined(user, participants)
    \/ \E user \in RemoteUsers, participants \in RosterPayloads :
            handleUserLeft(user, participants)

\* what reaches the chat pane: relayed messages, the history, and the notices
\* of roster pushes (a join lists the joiner, a leave the local user alone)
ChatPaneNext ==
    \/ \E data \in NewMessages : NewMessage(data)
    \/ \E messages \in HistoryPayloads : ChatHistory(messages)
    \/ \E user \in RemoteUsers : handleUserJoined(user, <<UserId, user>>)
    \/ \E user \in RemoteUsers : handleUserLeft(user, <<UserId>>)

MediaNext ==
    \/ CameraGranted
    \/ CameraDenied
    \/ toggleCamera
    \/ toggleMicrophone
    \/ ShareScreenControl
    \/ \E withAudio \in BOOLEAN : DisplayGranted(withAudio)
    \/ DisplayDenied
    \/ \E ref \in 1..Len(streams) : TrackEnded(ref)
    \/ TimerTick
    \/ confirmLeaveMeeting
    \/ BeforeUnload

\* ---------------------------------------------------------- specifications
\* The pages as loaded: app.js has bound its listeners, the MeetingRoom
\* constructor has run (socket open, timer started, camera requested,
\* join_meeting emitted).  texts: what formatMessageContent may be handed;
\* lists: what the page template may have rendered into #participantsList.
Loaded(texts, lists) ==
    /\ meetingIdValue = <<>>
    /\ buttons = [b \in SubmitButtons |->
            [innerHTML |-> OriginalLabel(b), disabled |-> FALSE, timers |-> <<>>]]
    /\ submitClicks = [b \in SubmitButtons |-> 0]
    /\ content \in texts
    /\ rendered = NotRendered
    /\ messageInput = <<>>
    /\ chatMessages = <<>>
    /\ unacked = 0
    /\ received = <<>>
    /\ participantsList \in lists
    /\ participantVideos = <<>>
    /\ participantCount = 1
    /\ phase = "active"
    /\ cameraReq = "pending"
    /\ streams = <<>>
    /\ localStream = 0
    /\ screenStream = 0
    /\ isCameraOn = TRUE
    /\ isMicrophoneOn = TRUE
    /\ isScreenSharing = FALSE
    /\ mainVideo = 0
    /\ displayReqs = 0
    /\ intervalActive = TRUE
    /\ timerTicks = 0
    /\ cameraBtn = ButtonClass(TRUE)
    /\ micBtn = ButtonClass(TRUE)
    /\ outbox = <<[event |-> "join_meeting", meeting_id |-> MeetingId]>>
    /\ notification = <<>>

Init == Loaded(Texts, {<<>>, <<SelfEntry>>})

Next == AppNext \/ FormatNext \/ SendNext \/ ChatPaneNext \/ RosterNext \/ MediaNext

Spec == Init /\ [][Next]_vars

\* the page chrome of app.js alone
SpecApp == Loaded({<<>>}, {<<SelfEntry>>}) /\ [][AppNext]_vars

\* formatMessageContent on every text of Texts
SpecFormat == Loaded(Texts, {<<SelfEntry>>}) /\ [][FormatNext]_vars

\* the message box and the send_message exchange
SpecSend == Loaded({<<>>}, {<<SelfEntry>>}) /\ [][SendNext]_vars

\* roster pushes on a template that renders the local participant's entry
SpecRosterTemplate == Loaded({<<>>}, {<<SelfEntry>>}) /\ [][RosterNext]_vars

\* roster pushes, with and without a self entry in the template
SpecRoster == Loaded({<<>>}, {<<>>, <<SelfEntry>>}) /\ [][RosterNext]_vars

\* the events that write to the chat pane
SpecChatPane == Loaded({<<>>}, {<<SelfEntry>>}) /\ [][ChatPaneNext]_vars

\* camera, microphone, screen share, timer and leaving
SpecMedia == Loaded({<<>>}, {<<SelfEntry>>}) /\ [][MediaNext]_vars

\* ------------------------------------------------------------------ claims
\* the streams the controller holds, or has stopped before
HeldOrStopped(strs) ==
    { ref \in 1..Len(strs) :
        \/ ref \in {localStream, screenStream}
        \/ \E i \in 1..Len(strs[ref].tracks) : strs[ref].tracks[i].stops > 0 }

\* C1: a leaveMeeting call (from confirmLeaveMeeting or from beforeunload)
\* leaves every track of the local and the screen-share stream, and of a share
\* stopped earlier, with stop invoked exactly once, and the interval cleared;
\* once leave_meeting was emitted no timer tick renders.
C1_LeaveStopsEachTrackOnce ==
    [][ /\ (confirmLeaveMeeting \/ BeforeUnload) =>
              /\ \A ref \in HeldOrStopped(streams') :
                    \A i \in 1..Len(streams'[ref].tracks) :
                        streams'[ref].tracks[i].stops = 1
              /\ ~intervalActive'
        /\ EmitCount("leave_meeting") > 0 => timerTicks' = timerTicks ]_vars

\* the entries of the participant list other than the local participant's
RemoteEntries(list) == SelectSeq(list, LAMBDA e : e # SelfEntry)

\* C2: after a roster push with N participants other than the local user the
\* list shows N remote entries and the grid N tiles, those of this push and
\* none of an earlier one.
C2_RosterPushRendersExactlyN ==
    [][ \A user \in RemoteUsers, participants \in RosterPayloads :
            (handleUserJoined(user, participants) \/ handleUserLeft(user, participants)) =>
                /\ Len(RemoteEntries(participantsList')) = Len(Others(participants))
                /\ Len(participantVideos') = Len(Others(participants))
                /\ RemoteEntries(participantsList') = Others(participants)
                /\ participantVideos' = Others(participants) ]_vars

\* C3: a roster rebuild keeps the local participant's entry and nothing else
\* of the old list: the new list is that entry, when the list held it,
\* followed by the remote participants of the push.
C3_RebuildKeepsOnlySelf ==
    [][ \A user \in RemoteUsers, participants \in RosterPayloads :
            (handleUserJoined(user, participants) \/ handleUserLeft(user, participants)) =>
                participantsList' =
                    SelectSeq(participantsList, LAMBDA e : e = SelfEntry)
                        \o Others(participants) ]_vars

\* the enabled flags of the tracks of one kind, in getTracks() order
EnabledOfKind(stream, kind) ==
    [i \in 1..Len(TracksOfKind(stream, kind)) |->
        stream.tracks[TracksOfKind(stream, kind)[i]].enabled]

\* C4: with a local stream, toggleCamera flips every video track to the new
\* isCameraOn and leaves the audio tracks and isMicrophoneOn alone;
\* toggleMicrophone does the same with audio and video exchanged.
C4_ToggleChangesOnlyItsKind ==
    [][ /\ (localStream # 0 /\ toggleCamera) =>
              /\ isCameraOn' = ~isCameraOn
              /\ \A i \in 1..Len(TracksOfKind(streams[localStream], "video")) :
                    /\ EnabledOfKind(streams'[localStream], "video")[i] = isCameraOn'
                    /\ EnabledOfKind(streams[localStream], "video")[i] = isCameraOn
              /\ EnabledOfKind(streams'[localStream], "audio")
                    = EnabledOfKind(streams[localStream], "audio")
              /\ isMicrophoneOn' = isMicrophoneOn
        /\ (localStream # 0 /\ toggleMicrophone) =>
              /\ isMicrophoneOn' = ~isMicrophoneOn
              /\ \A i \in 1..Len(TracksOfKind(streams[localStream], "audio")) :
                    /\ EnabledOfKind(streams'[localStream], "audio")[i] = isMicrophoneOn'
                    /\ EnabledOfKind(streams[localStream], "audio")[i] = isMicrophoneOn
              /\ EnabledOfKind(streams'[localStream], "video")
                    = EnabledOfKind(streams[localStream], "video")
              /\ isCameraOn' = isCameraOn ]_vars

\* the camera is off and its track disabled while the microphone stays on
C4_Witness ==
    /\ localStream # 0
    /\ ~isCameraOn
    /\ isMicrophoneOn
    /\ EnabledOfKind(streams[localStream], "video") = <<FALSE>>
    /\ EnabledOfKind(streams[localStream], "audio") = <<TRUE>>

\* the mask the claim describes: a separator only before a further digit
ExpectedMask(raw) ==
    LET digits == StripNonDigits(raw)
        d == SubSeq(digits, 1, IF Len(digits) > 10 THEN 10 ELSE Len(digits))
    IN  IF Len(d) > 6
        THEN SubSeq(d, 1, 3) \o <<"-">> \o SubSeq(d, 4, 6) \o <<"-">> \o SubSeq(d, 7, Len(d))
        ELSE IF Len(d) > 3
        THEN SubSeq(d, 1, 3) \o <<"-">> \o SubSeq(d, 4, Len(d))
        ELSE d

\* C5: whatever the field holds when the input listener runs, it renders the
\* digits only, the first 10 of them, with '-' after the 3rd and the 6th digit
\* only when a further digit follows.
C5_MaskSeparatorOnlyBeforeDigit ==
    [][ /\ \A c \in TypedChars :
              TypeMeetingId(c) =>
                  meetingIdValue' = ExpectedMask(Append(meetingIdValue, c))
        /\ BackspaceMeetingId =>
              meetingIdValue' =
                  ExpectedMask(SubSeq(meetingIdValue, 1, Len(meetingIdValue) - 1)) ]_vars

\* C6: a submit button with no timer pending shows the label it was rendered
\* with and is enabled, however often it was clicked.
C6_SubmitButtonReverts ==
    \A b \in SubmitButtons :
        buttons[b].timers = <<>> =>
            /\ buttons[b].innerHTML = OriginalLabel(b)
            /\ ~buttons[b].disabled

\* a button clicked twice whose timers have both fired
C6_Witness ==
    \E b \in SubmitButtons :
        /\ submitClicks[b] >= 2
        /\ buttons[b].timers = <<>>
        /\ buttons[b].innerHTML = OriginalLabel(b)
        /\ ~buttons[b].disabled

\* C7: sendMessage on an empty or whitespace-only box emits nothing and leaves
\* the box; otherwise it emits one send_message with the meeting id and the
\* trimmed text and empties the box in the same step, no acknowledgment awaited.
C7_SendMessageTrimsAndClears ==
    [][ sendMessage =>
            IF \A i \in 1..Len(messageInput) : messageInput[i] \in Whitespace
            THEN outbox' = outbox /\ messageInput' = messageInput
            ELSE /\ Len(outbox') = Len(outbox) + 1
                 /\ SubSeq(outbox', 1, Len(outbox)) = outbox
                 /\ outbox'[Len(outbox')] =
                        [event |-> "send_message", meeting_id |-> MeetingId,
                         message |-> Trim(messageInput)]
                 /\ Head(Trim(messageInput)) \notin Whitespace
                 /\ Trim(messageInput)[Len(Trim(messageInput))] \notin Whitespace
                 /\ Contains(messageInput, Trim(messageInput))
                 /\ messageInput' = <<>> ]_vars

\* a message with inner whitespace was sent, the box is empty, no acknowledgment yet
C7_Witness ==
    /\ messageInput = <<>>
    /\ unacked > 0
    /\ \E i \in 1..Len(outbox) :
          /\ outbox[i].event = "send_message"
          /\ outbox[i].message = <<"a", " ", "a">>

\* C8: once the camera request is denied both flags are off, join_meeting was
\* emitted exactly once, and no toggle has changed a flag or reached the server.
C8_DeniedCameraDegrades ==
    cameraReq = "denied" =>
        /\ ~isCameraOn
        /\ ~isMicrophoneOn
        /\ EmitCount("join_meeting") = 1
        /\ EmitCount("toggle_camera") = 0
        /\ EmitCount("toggle_microphone") = 0

\* toggleCamera was called after the denial and changed nothing
C8_Witness ==
    /\ cameraReq = "denied"
    /\ notification = <<"Camera not available">>
    /\ phase = "active"

\* every occurrence of a pattern replaced by its glyph, in one pass over the text
RECURSIVE ScanReplace(_)
ScanReplace(s) ==
    IF s = <<>> THEN <<>>
    ELSE IF \E i \in 1..Len(Substitutions) : StartsWith(s, Substitutions[i].pat)
    THEN LET i == CHOOSE k \in 1..Len(Substitutions) : StartsWith(s, Substitutions[k].pat)
         IN  Substitutions[i].rep \o ScanReplace(Drop(s, Len(Substitutions[i].pat)))
    ELSE <<Head(s)>> \o ScanReplace(Tail(s))

\* the substitutions applied in the given order
RECURSIVE ApplyInOrder(_, _)
ApplyInOrder(order, s) ==
    IF order = <<>> THEN s ELSE ApplyInOrder(Tail(order), Substitute(s, Head(order)))

Orders == { [i \in 1..Len(Substitutions) |-> f[i]] : f \in Permutations(1..Len(Substitutions)) }

\* C9: the rendered text is the message with every occurrence of the five
\* sequences replaced by its glyph, none of the sequences is left in it, and
\* each order of the five substitutions renders the same.
C9_EmojiSubstitutionComplete ==
    rendered # NotRendered =>
        /\ rendered = Linkify(ScanReplace(content))
        /\ \A i \in 1..Len(Substitutions) : ~Contains(rendered, Substitutions[i].pat)
        /\ \A order \in Orders : Linkify(ApplyInOrder(order, content)) = rendered

\* a text with one sequence twice, both rendered
C9_Witness ==
    /\ content = <<":", ")", ":", ")">>
    /\ rendered = GlyphSmile \o GlyphSmile

\* C10: isScreenSharing is true exactly when screenStream is set, and the main
\* preview shows the screen stream exactly when isScreenSharing is true.
C10_PreviewFollowsScreenShare ==
    /\ isScreenSharing <=> screenStream # 0
    /\ isScreenSharing <=> (mainVideo # 0 /\ mainVideo = screenStream)

\* the most recently emitted event of the given name
LastEmitted(name) ==
    outbox[CHOOSE i \in 1..Len(outbox) :
              /\ outbox[i].event = name
              /\ \A j \in (i + 1)..Len(outbox) : outbox[j].event # name]

\* C11: with a local stream, isCameraOn is the enabled flag of the local video
\* track and the camera_on of the last toggle_camera event, isMicrophoneOn is
\* the enabled flag of the local audio track and the mic_on of the last
\* toggle_microphone event, and each toggle call emits exactly one event, its own.
C11_TogglesKeepFlagsAndEvents ==
    /\ [](localStream # 0 =>
            /\ EnabledOfKind(streams[localStream], "video") = <<isCameraOn>>
            /\ EnabledOfKind(streams[localStream], "audio") = <<isMicrophoneOn>>
            /\ EmitCount("toggle_camera") > 0 =>
                   LastEmitted("toggle_camera").camera_on = isCameraOn
            /\ EmitCount("toggle_microphone") > 0 =>
                   LastEmitted("toggle_microphone").mic_on = isMicrophoneOn)
    /\ [][ /\ (localStream # 0 /\ toggleCamera) =>
                 outbox' = Append(outbox, [event |-> "toggle_camera",
                                           meeting_id |-> MeetingId,
                                           camera_on |-> isCameraOn'])
           /\ (localStream # 0 /\ toggleMicrophone) =>
                 outbox' = Append(outbox, [event |-> "toggle_microphone",
                                           meeting_id |-> MeetingId,
                                           mic_on |-> isMicrophoneOn']) ]_vars

\* the camera was toggled off and on again: the last of its two events says on
C11_Witness ==
    /\ localStream # 0
    /\ EmitCount("toggle_camera") = 2
    /\ isCameraOn
    /\ LastEmitted("toggle_camera").camera_on
    /\ EnabledOfKind(streams[localStream], "video") = <<TRUE>>
    /\ isMicrophoneOn

\* the position in the arrival log of the last chat_history event, 0 if none
LastHistory ==
    IF \E i \in 1..Len(received) : received[i].event = "chat_history"
    THEN CHOOSE i \in 1..Len(received) :
            /\ received[i].event = "chat_history"
            /\ \A j \in (i + 1)..Len(received) : received[j].event # "chat_history"
    ELSE 0

\* the pane entry is the rendering of this chat message
ShowsMessage(entry, message) ==
    /\ entry.type = "message"
    /\ Head(entry.sender) = message.user_name
    /\ entry.content = Linkify(ScanReplace(message.message))

\* the pane entry is what this arrival puts on the pane
ShowsArrival(entry, arrival) ==
    IF arrival.event = "new_message"
    THEN ShowsMessage(entry, arrival.data) /\ entry.time = arrival.data.timestamp
    ELSE /\ entry.type = "system"
         /\ entry.text = <<arrival.user, SubSeq(arrival.event, 6, Len(arrival.event))>>

\* C12: once a chat_history payload has arrived the pane holds the messages of
\* the last payload in payload order, then one entry for every message and
\* notice that arrived after it, in arrival order; a new_message appends one
\* entry at the end and leaves the entries before it as they were.
C12_PaneIsHistoryThenArrivals ==
    /\ [](LastHistory > 0 =>
            LET messages == received[LastHistory].messages
                later == SubSeq(received, LastHistory + 1, Len(received))
            IN  /\ Len(chatMessages) = Len(messages) + Len(later)
                /\ \A i \in 1..Len(messages) : ShowsMessage(chatMessages[i], messages[i])
                /\ \A i \in 1..Len(later) :
                       ShowsArrival(chatMessages[Len(messages) + i], later[i]))
    /\ [][ \A data \in NewMessages :
              NewMessage(data) =>
                  /\ Len(chatMessages') = Len(chatMessages) + 1
                  /\ SubSeq(chatMessages', 1, Len(chatMessages)) = chatMessages
                  /\ ShowsMessage(chatMessages'[Len(chatMessages')], data) ]_vars

\* a message shown before the history is gone, the two stored messages are
\* there in payload order, and a message relayed afterwards follows them
C12_Witness ==
    /\ Len(received) = 3
    /\ received[1].event = "new_message"
    /\ received[2].event = "chat_history"
    /\ Len(received[2].messages) = 2
    /\ received[2].messages[1].user_name # received[2].messages[2].user_name
    /\ received[3].event = "new_message"
    /\ Len(chatMessages) = 3
    /\ chatMessages[3].time \in ClockTimes

\* the streams that still have a live track
LiveStreams == { ref \in 1..Len(streams) :
                    \E i \in 1..Len(streams[ref].tracks) :
                        streams[ref].tracks[i].readyState = "live" }

\* C13: once leaveMeeting has run and no getUserMedia or getDisplayMedia
\* request is pending, no stream the controller obtained has a live track.
C13_NoLiveStreamAfterLeave ==
    (EmitCount("leave_meeting") > 0 /\ cameraReq # "pending" /\ displayReqs = 0) =>
        LiveStreams = {}

\* C14: leave_meeting is emitted at most once, and once it is emitted it stays
\* the last event the controller has sent.
C14_LeaveIsEmittedOnceAndLast ==
    /\ EmitCount("leave_meeting") <= 1
    /\ EmitCount("leave_meeting") > 0 => outbox[Len(outbox)].event = "leave_meeting"

====
